---- MODULE Spec2Model ----
(***************************************************************************)
(* Model of the JIRA MCP server (projects/Jira MCP/mcp_server.py).         *)
(*                                                                         *)
(* Two layers are modelled: the Tracker Client (class JIRAMCPServer) whose *)
(* operations all funnel through _make_request, and the Tool Dispatcher    *)
(* (handle_list_tools / handle_call_tool).  main() is modelled as a small  *)
(* process that initializes the client, runs the message loop and closes   *)
(* the session in its finally block.                                       *)
(*                                                                         *)
(* Text is modelled as a sequence of string tokens: an f-string is the     *)
(* sequence of its literal parts and interpolated values.                  *)
(***************************************************************************)
EXTENDS Integers, Sequences, FiniteSets, TLC

VARIABLES
    config,     \* jira_client.config: "None" or "set"
    session,    \* jira_client.session: "None", "open" or "closed"
    pc,         \* position of main(): not_started, initialized, running, finally, done
    exit,       \* how main() ends: "none" while running, then "normal" or "raised"
    loop,       \* how the message loop ended: "none", "returned" or "raised"
    acquired,   \* number of aiohttp.ClientSession objects constructed
    released,   \* number of session.close() calls performed
    call        \* the call being answered (NoCall between calls)

vars == <<config, session, pc, exit, loop, acquired, released, call>>

None == "None"

(***************************************************************************)
(* Bounds of the model.                                                    *)
(***************************************************************************)
\* longest list of transitions the tracker reports for one issue
MaxTransitions == 2

(***************************************************************************)
(* Input domains.                                                          *)
(***************************************************************************)
\* identifiers the tracker gives to transitions (non-empty strings)
TransitionIds == {"11", "21", "31"}

\* display names the tracker gives to transitions
TrackerNames == {"In Progress", "Done", "DONE"}

\* transition names a caller asks for
RequestedNames == {"in progress", "Done", "done", "Closed"}

\* str.lower() on the strings that occur as transition names
Lower(s) ==
    CASE s = "In Progress" -> "in progress"
      [] s = "in progress" -> "in progress"
      [] s = "Done"        -> "done"
      [] s = "DONE"        -> "done"
      [] s = "done"        -> "done"
      [] s = "Closed"      -> "closed"
      [] OTHER             -> s

\* Python truthiness of an Optional[str]
Truthy(v) == v # None /\ v # ""

Range(s) == {s[i] : i \in 1..Len(s)}

\* all sequences over S of length at most n
RECURSIVE SeqsUpTo(_, _)
SeqsUpTo(S, n) ==
    IF n = 0 THEN {<<>>}
    ELSE LET shorter == SeqsUpTo(S, n - 1)
         IN  shorter \cup {Append(s, x) : s \in {t \in shorter : Len(t) = n - 1}, x \in S}

Transitions == [id : TransitionIds, name : TrackerNames]

\* the tracker never reports two transitions with the same id
TransitionLists ==
    {ts \in SeqsUpTo(Transitions, MaxTransitions) :
        \A i, j \in 1..Len(ts) : ts[i].id = ts[j].id => i = j}

(***************************************************************************)
(* Exceptions and results of a client operation.                           *)
(* A result holds the HTTP requests the operation issued, in order, the    *)
(* exception it raised (NoExc when it returned) and the value it returned. *)
(***************************************************************************)
NoExc == [type |-> "none", args |-> <<>>]

Raise(type, message) == [type |-> type, args |-> <<message>>]

Raised(r) == r.exc # NoExc

\* str(e): a KeyError prints the repr of the missing key, the others their message
StrExc(e) ==
    IF e.type = "KeyError" THEN <<"'", e.args[1], "'">> ELSE e.args

(***************************************************************************)
(* The remote tracker.  A response is a successful status with a JSON      *)
(* body, a successful status without a JSON body (204 No Content), a       *)
(* non-success status, or no response at all (network failure).            *)
(***************************************************************************)
\* JSON objects the tracker answers with when the request is not about transitions
DataBodies ==
    { [key |-> "PROJ-1"],
      [issues |-> <<[key |-> "PROJ-2"]>>],
      [issueTypes |-> <<[name |-> "Bug"]>>] }

TransitionBodies == {[transitions |-> ts] : ts \in TransitionLists}

Failures ==
    {[status |-> "no_json"], [status |-> "http_error"], [status |-> "network_error"],
     [status |-> "timeout"]}

Ok(bodies) == {[status |-> "ok", body |-> b] : b \in bodies}

\* dict.get(key, default)
DictGet(d, k, default) == IF k \in DOMAIN d THEN d[k] ELSE default

(***************************************************************************)
(* Tracker Client (class JIRAMCPServer).                                   *)
(***************************************************************************)
\* session.request(...), raise_for_status() and response.json(): the outcome
\* of one request sent on an open session
Send(req, resp) ==
    CASE resp.status = "ok" ->
            [requests |-> <<req>>, exc |-> NoExc, value |-> resp.body]
      [] resp.status = "no_json" ->
            [requests |-> <<req>>, exc |-> Raise("ContentTypeError", "unexpected mimetype"),
             value |-> None]
      [] resp.status = "timeout" ->
            [requests |-> <<req>>, exc |-> Raise("TimeoutError", "request timed out"),
             value |-> None]
      [] resp.status = "http_error" ->
            [requests |-> <<req>>, exc |-> Raise("ClientResponseError", "non-success status"),
             value |-> None]
      [] OTHER ->
            [requests |-> <<req>>, exc |-> Raise("ClientConnectionError", "network failure"),
             value |-> None]

\* a request primitive that sends a failed request a second time
_make_request_retrying(method, endpoint, kwargs, resp) ==
    IF session = None \/ config = None
    THEN [requests |-> <<>>, exc |-> Raise("ValueError", "JIRA client not initialized"),
          value |-> None]
    ELSE IF session = "closed"
    THEN [requests |-> <<>>, exc |-> Raise("RuntimeError", "Session is closed"),
          value |-> None]
    ELSE LET req == [method |-> method, endpoint |-> endpoint, kwargs |-> kwargs]
             r == Send(req, resp)
         IN  IF Raised(r) THEN [r EXCEPT !.requests = <<req, req>>] ELSE r

\* a request primitive that only fails fast when both config and session are absent
_make_request_weak_guard(method, endpoint, kwargs, resp) ==
    IF session = None /\ config = None
    THEN [requests |-> <<>>, exc |-> Raise("ValueError", "JIRA client not initialized"),
          value |-> None]
    ELSE IF session = "closed"
    THEN [requests |-> <<>>, exc |-> Raise("RuntimeError", "Session is closed"),
          value |-> None]
    ELSE Send([method |-> method, endpoint |-> endpoint, kwargs |-> kwargs], resp)

\* _make_request: the single chokepoint of every operation
_make_request(method, endpoint, kwargs, resp) ==
    IF session = None \/ config = None
    THEN [requests |-> <<>>, exc |-> Raise("ValueError", "JIRA client not initialized"),
          value |-> None]
    ELSE IF session = "closed"
    THEN \* aiohttp refuses to send on a closed session
         [requests |-> <<>>, exc |-> Raise("RuntimeError", "Session is closed"),
          value |-> None]
    ELSE Send([method |-> method, endpoint |-> endpoint, kwargs |-> kwargs], resp)

NoKwargs == [k \in {} |-> None]

get_projects(resp) == _make_request("GET", <<"project">>, NoKwargs, resp)

get_project_details(project_key, resp) ==
    _make_request("GET", <<"project/", project_key>>, NoKwargs, resp)

\* An Optional[List[str]] is <<>> for None and <<list>> for a list.
\* ','.join(fields) if fields else '*all'
JoinFields(fields) ==
    IF fields # <<>> /\ fields[1] # <<>> THEN fields[1] ELSE <<"*all">>

\* a search sent as POST search with the query in the body
search_issues_post(jql, fields, max_results, resp) ==
    _make_request("POST", <<"search">>,
        [json |-> [jql |-> jql, maxResults |-> max_results, fields |-> JoinFields(fields)]],
        resp)

search_issues(jql, fields, max_results, resp) ==
    _make_request("GET", <<"search">>,
        [params |-> [jql |-> jql, maxResults |-> max_results, fields |-> JoinFields(fields)]],
        resp)

get_issue(issue_key, resp) ==
    _make_request("GET", <<"issue/", issue_key>>, NoKwargs, resp)

create_issue(issue_data, resp) ==
    _make_request("POST", <<"issue">>, [json |-> issue_data], resp)

update_issue(issue_key, update_data, resp) ==
    _make_request("PUT", <<"issue/", issue_key>>, [json |-> update_data], resp)

transition_issue(issue_key, transition_id, resp) ==
    _make_request("POST", <<"issue/", issue_key, "/transitions">>,
        [json |-> [transition |-> [id |-> transition_id]]], resp)

\* result.get(...) of the operations that unwrap the response
Unwrap(r, key) ==
    IF Raised(r) THEN r ELSE [r EXCEPT !.value = DictGet(r.value, key, <<>>)]

get_issue_transitions(issue_key, resp) ==
    Unwrap(_make_request("GET", <<"issue/", issue_key, "/transitions">>, NoKwargs, resp),
           "transitions")

\* the Atlassian document wrapper of free text: one paragraph, one run
TextDoc(text) ==
    [type |-> "doc", version |-> 1,
     content |-> <<[type |-> "paragraph",
                    content |-> <<[text |-> text, type |-> "text"]>>]>>]

add_comment(issue_key, comment, resp) ==
    _make_request("POST", <<"issue/", issue_key, "/comment">>,
        [json |-> [body |-> TextDoc(comment)]], resp)

get_issue_types(project_key, resp) ==
    Unwrap(get_project_details(project_key, resp), "issueTypes")

get_epics(project_key, resp) ==
    Unwrap(search_issues(<<"project = \"", project_key,
                           "\" AND issuetype = Epic ORDER BY created DESC">>,
                         <<>>, 50, resp),
           "issues")

link_issue_to_epic(issue_key, epic_key, resp) ==
    update_issue(issue_key, [fields |-> [parent |-> [key |-> epic_key]]], resp)

(***************************************************************************)
(* Tool Dispatcher: the catalog (handle_list_tools).                       *)
(***************************************************************************)
handle_list_tools ==
    << [name |-> "jira_get_projects", properties |-> {}, required |-> {}],
       [name |-> "jira_get_project_details",
        properties |-> {"project_key"}, required |-> {"project_key"}],
       [name |-> "jira_search_issues",
        properties |-> {"jql", "fields", "max_results"}, required |-> {"jql"}],
       [name |-> "jira_get_issue",
        properties |-> {"issue_key"}, required |-> {"issue_key"}],
       [name |-> "jira_create_issue",
        properties |-> {"project_key", "issue_type", "summary", "description",
                        "assignee", "priority", "labels", "parent_key"},
        required |-> {"project_key", "issue_type", "summary"}],
       [name |-> "jira_update_issue",
        properties |-> {"issue_key", "summary", "description", "assignee",
                        "priority", "labels"},
        required |-> {"issue_key"}],
       [name |-> "jira_transition_issue",
        properties |-> {"issue_key", "transition_name"},
        required |-> {"issue_key", "transition_name"}],
       [name |-> "jira_get_available_transitions",
        properties |-> {"issue_key"}, required |-> {"issue_key"}],
       [name |-> "jira_add_comment",
        properties |-> {"issue_key", "comment"}, required |-> {"issue_key", "comment"}],
       [name |-> "jira_get_epics",
        properties |-> {"project_key"}, required |-> {"project_key"}],
       [name |-> "jira_get_issue_types",
        properties |-> {"project_key"}, required |-> {"project_key"}] >>

CatalogNames == {handle_list_tools[i].name : i \in 1..Len(handle_list_tools)}

\* the descriptor of a catalog tool
Descriptor(name) ==
    handle_list_tools[CHOOSE i \in 1..Len(handle_list_tools) : handle_list_tools[i].name = name]

\* a chain that lost its last branch
DispatchChainShort ==
    << "jira_get_projects", "jira_get_project_details", "jira_search_issues",
       "jira_get_issue", "jira_create_issue", "jira_update_issue",
       "jira_transition_issue", "jira_get_available_transitions",
       "jira_add_comment", "jira_get_epics" >>

\* the names `name ==` is compared with in handle_call_tool, in source order
DispatchChain ==
    << "jira_get_projects", "jira_get_project_details", "jira_search_issues",
       "jira_get_issue", "jira_create_issue", "jira_update_issue",
       "jira_transition_issue", "jira_get_available_transitions",
       "jira_add_comment", "jira_get_epics", "jira_get_issue_types" >>

\* a chain whose final else falls through to the first branch
BranchNoElse(name) ==
    LET hits == {i \in 1..Len(DispatchChain) : DispatchChain[i] = name}
    IN  IF hits = {} THEN 1 ELSE CHOOSE i \in hits : \A j \in hits : i <= j

\* index of the if/elif branch that runs for a name; 0 is the final else
Branch(name) ==
    LET hits == {i \in 1..Len(DispatchChain) : DispatchChain[i] = name}
    IN  IF hits = {} THEN 0 ELSE CHOOSE i \in hits : \A j \in hits : i <= j

(***************************************************************************)
(* Tool Dispatcher: handle_call_tool.                                      *)
(* A branch yields the client operations it invoked (with the requests     *)
(* each issued), the exception it raised, and the list it returned.        *)
(***************************************************************************)
TextContent(tokens) == [type |-> "text", text |-> tokens]

\* json.dumps(value, indent=2)
JsonDumps(value) == <<"json", value>>

\* arguments[k] of the first k, in evaluation order, that is not in arguments
FirstMissing(arguments, keys) ==
    LET missing == {i \in 1..Len(keys) : keys[i] \notin DOMAIN arguments}
    IN  IF missing = {} THEN None
        ELSE keys[CHOOSE i \in missing : \A j \in missing : i <= j]

KeyError(ops, k) == [ops |-> ops, exc |-> Raise("KeyError", k), content |-> <<>>]

Invoked(op, r) == [op |-> op, requests |-> r.requests, exc |-> r.exc, value |-> r.value]

\* a branch that invokes one client operation and returns `content`
Reply(op, r, content) ==
    [ops |-> <<Invoked(op, r)>>, exc |-> r.exc,
     content |-> IF Raised(r) THEN <<>> ELSE <<TextContent(content)>>]

\* dict[k] = v
Put(d, k, v) == [x \in DOMAIN d \cup {k} |-> IF x = k THEN v ELSE d[x]]

\* the fields document of jira_create_issue
CreateFields(arguments) ==
    LET f0 == [project   |-> [key |-> arguments["project_key"]],
               issuetype |-> [name |-> arguments["issue_type"]],
               summary   |-> arguments["summary"]]
        f1 == IF "description" \in DOMAIN arguments
              THEN Put(f0, "description", TextDoc(arguments["description"])) ELSE f0
        f2 == IF "assignee" \in DOMAIN arguments
              THEN Put(f1, "assignee", [name |-> arguments["assignee"]]) ELSE f1
        f3 == IF "priority" \in DOMAIN arguments
              THEN Put(f2, "priority", [name |-> arguments["priority"]]) ELSE f2
        f4 == IF "labels" \in DOMAIN arguments
              THEN Put(f3, "labels", arguments["labels"]) ELSE f3
        f5 == IF "parent_key" \in DOMAIN arguments
              THEN Put(f4, "parent", [key |-> arguments["parent_key"]]) ELSE f4
    IN  f5

\* an update document that always carries a summary, null when none was supplied
UpdateFieldsNullSummary(arguments) ==
    LET f1 == [summary |-> DictGet(arguments, "summary", None)]
        f2 == IF "description" \in DOMAIN arguments
              THEN Put(f1, "description", TextDoc(arguments["description"])) ELSE f1
        f3 == IF "assignee" \in DOMAIN arguments
              THEN Put(f2, "assignee", [name |-> arguments["assignee"]]) ELSE f2
        f4 == IF "priority" \in DOMAIN arguments
              THEN Put(f3, "priority", [name |-> arguments["priority"]]) ELSE f3
        f5 == IF "labels" \in DOMAIN arguments
              THEN Put(f4, "labels", arguments["labels"]) ELSE f4
    IN  f5

\* the fields document of jira_update_issue
UpdateFields(arguments) ==
    LET f0 == [k \in {} |-> None]
        f1 == IF "summary" \in DOMAIN arguments
              THEN Put(f0, "summary", arguments["summary"]) ELSE f0
        f2 == IF "description" \in DOMAIN arguments
              THEN Put(f1, "description", TextDoc(arguments["description"])) ELSE f1
        f3 == IF "assignee" \in DOMAIN arguments
              THEN Put(f2, "assignee", [name |-> arguments["assignee"]]) ELSE f2
        f4 == IF "priority" \in DOMAIN arguments
              THEN Put(f3, "priority", [name |-> arguments["priority"]]) ELSE f3
        f5 == IF "labels" \in DOMAIN arguments
              THEN Put(f4, "labels", arguments["labels"]) ELSE f4
    IN  f5

\* the loop falling back to the first transition when no name matches
FindTransitionIdOrDefault(transitions, transition_name) ==
    LET matches == {i \in 1..Len(transitions) :
                        Lower(transitions[i].name) = Lower(transition_name)}
    IN  IF matches = {} THEN (IF transitions = <<>> THEN None ELSE transitions[1].id)
        ELSE transitions[CHOOSE i \in matches : \A j \in matches : i <= j].id

\* the loop without its break: the last matching transition wins
FindTransitionIdLast(transitions, transition_name) ==
    LET matches == {i \in 1..Len(transitions) :
                        Lower(transitions[i].name) = Lower(transition_name)}
    IN  IF matches = {} THEN None
        ELSE transitions[CHOOSE i \in matches : \A j \in matches : i >= j].id

\* the loop of jira_transition_issue: the id of the first transition whose
\* name equals the requested one ignoring case, None when there is none
FindTransitionId(transitions, transition_name) ==
    LET matches == {i \in 1..Len(transitions) :
                        Lower(transitions[i].name) = Lower(transition_name)}
    IN  IF matches = {} THEN None
        ELSE transitions[CHOOSE i \in matches : \A j \in matches : i <= j].id

\* [t["name"] for t in transitions]
AvailableNames(transitions) == [i \in 1..Len(transitions) |-> transitions[i].name]

\* the jira_transition_issue branch
TransitionBranch(arguments, resp1, resp2) ==
    IF "issue_key" \notin DOMAIN arguments THEN KeyError(<<>>, "issue_key")
    ELSE
    LET issue_key == arguments["issue_key"]
        got == get_issue_transitions(issue_key, resp1)
        fetched == <<Invoked("get_issue_transitions", got)>>
    IN  IF Raised(got) THEN [ops |-> fetched, exc |-> got.exc, content |-> <<>>]
        ELSE IF "transition_name" \notin DOMAIN arguments
        THEN \* raised by the loop's comparison, or by the f-string when the list is empty
             KeyError(fetched, "transition_name")
        ELSE
        LET transition_name == arguments["transition_name"]
            transition_id == FindTransitionId(got.value, transition_name)
        IN  IF ~Truthy(transition_id)
            THEN [ops |-> fetched, exc |-> NoExc,
                  content |-> <<TextContent(
                      <<"Transition '", transition_name,
                        "' not found. Available transitions: ">>
                      \o AvailableNames(got.value))>>]
            ELSE
            LET done == transition_issue(issue_key, transition_id, resp2)
                ops == Append(fetched, Invoked("transition_issue", done))
            IN  IF Raised(done) THEN [ops |-> ops, exc |-> done.exc, content |-> <<>>]
                ELSE [ops |-> ops, exc |-> NoExc,
                      content |-> <<TextContent(
                          <<"Issue ", issue_key, " transitioned to ", transition_name>>)>>]

\* the body of the try block of handle_call_tool
Dispatch(name, arguments, resp1, resp2) ==
    LET b == Branch(name)
        missing(keys) == FirstMissing(arguments, keys)
    IN  CASE b = 1 ->
               LET r == get_projects(resp1) IN Reply("get_projects", r, JsonDumps(r.value))
          [] b = 2 ->
               IF missing(<<"project_key">>) # None
               THEN KeyError(<<>>, missing(<<"project_key">>))
               ELSE LET r == get_project_details(arguments["project_key"], resp1)
                    IN  Reply("get_project_details", r, JsonDumps(r.value))
          [] b = 3 ->
               IF missing(<<"jql">>) # None
               THEN KeyError(<<>>, missing(<<"jql">>))
               ELSE LET r == search_issues(
                                arguments["jql"],
                                IF "fields" \in DOMAIN arguments
                                    THEN <<arguments["fields"]>> ELSE <<>>,
                                DictGet(arguments, "max_results", 50),
                                resp1)
                    IN  Reply("search_issues", r, JsonDumps(r.value))
          [] b = 4 ->
               IF missing(<<"issue_key">>) # None
               THEN KeyError(<<>>, missing(<<"issue_key">>))
               ELSE LET r == get_issue(arguments["issue_key"], resp1)
                    IN  Reply("get_issue", r, JsonDumps(r.value))
          [] b = 5 ->
               IF missing(<<"project_key", "issue_type", "summary">>) # None
               THEN KeyError(<<>>, missing(<<"project_key", "issue_type", "summary">>))
               ELSE LET r == create_issue([fields |-> CreateFields(arguments)], resp1)
                    IN  Reply("create_issue", r, JsonDumps(r.value))
          [] b = 6 ->
               \* arguments["issue_key"] is evaluated after the document is built
               \* and before update_issue is entered
               IF missing(<<"issue_key">>) # None
               THEN KeyError(<<>>, missing(<<"issue_key">>))
               ELSE LET r == update_issue(arguments["issue_key"],
                                          [fields |-> UpdateFields(arguments)], resp1)
                    IN  Reply("update_issue", r,
                              <<"Issue ", arguments["issue_key"], " updated successfully">>)
          [] b = 7 -> TransitionBranch(arguments, resp1, resp2)
          [] b = 8 ->
               IF missing(<<"issue_key">>) # None
               THEN KeyError(<<>>, missing(<<"issue_key">>))
               ELSE LET r == get_issue_transitions(arguments["issue_key"], resp1)
                    IN  Reply("get_issue_transitions", r, JsonDumps(r.value))
          [] b = 9 ->
               IF missing(<<"issue_key", "comment">>) # None
               THEN KeyError(<<>>, missing(<<"issue_key", "comment">>))
               ELSE LET r == add_comment(arguments["issue_key"], arguments["comment"], resp1)
                    IN  Reply("add_comment", r, JsonDumps(r.value))
          [] b = 10 ->
               IF missing(<<"project_key">>) # None
               THEN KeyError(<<>>, missing(<<"project_key">>))
               ELSE LET r == get_epics(arguments["project_key"], resp1)
                    IN  Reply("get_epics", r, JsonDumps(r.value))
          [] b = 11 ->
               IF missing(<<"project_key">>) # None
               THEN KeyError(<<>>, missing(<<"project_key">>))
               ELSE LET r == get_issue_types(arguments["project_key"], resp1)
                    IN  Reply("get_issue_types", r, JsonDumps(r.value))
          [] OTHER ->
               [ops |-> <<>>, exc |-> NoExc,
                content |-> <<TextContent(<<"Unknown tool: ", name>>)>>]

\* the exception classes that `except aiohttp.ClientError` would catch
IsClientError(type) ==
    type \in {"ContentTypeError", "ClientResponseError", "ClientConnectionError"}

\* the exception classes that `except Exception` catches
IsException(type) ==
    type \in {"ValueError", "RuntimeError", "KeyError", "TimeoutError",
              "ContentTypeError", "ClientResponseError", "ClientConnectionError"}

\* all requests of a list of invoked operations, in order
RECURSIVE RequestsOf(_)
RequestsOf(ops) ==
    IF ops = <<>> THEN <<>> ELSE Head(ops).requests \o RequestsOf(Tail(ops))

\* handle_call_tool: the try block and its except clause
handle_call_tool(name, arguments, resp1, resp2) ==
    LET d == Dispatch(name, arguments, resp1, resp2)
        caught == Raised(d) /\ IsException(d.exc.type)
    IN  [name      |-> name,
         arguments |-> arguments,
         branch    |-> Branch(name),
         ops       |-> d.ops,
         requests  |-> RequestsOf(d.ops),
         raised    |-> d.exc,
         content   |-> IF caught
                       THEN <<TextContent(<<"Error: ">> \o StrExc(d.exc))>>
                       ELSE d.content,
         escaped   |-> IF Raised(d) /\ ~caught THEN d.exc ELSE NoExc]

(***************************************************************************)
(* Callers and their inputs.                                               *)
(***************************************************************************)
\* tool names a caller may send: the catalog and two names outside it
ToolNames == CatalogNames \cup {"jira_bogus", "jira_link_issue_to_epic"}

\* the argument keys a caller may send with a tool name: the properties its
\* schema declares (an update may also carry the parent_key of a create)
ArgumentKeys(name) ==
    IF name \notin CatalogNames THEN {"issue_key"}
    ELSE IF name = "jira_update_issue" THEN Descriptor(name).properties \cup {"parent_key"}
    ELSE Descriptor(name).properties

ArgumentValue(k, transition_name) ==
    CASE k = "transition_name" -> transition_name
      [] k = "issue_key"       -> "PROJ-1"
      [] k = "project_key"     -> "PROJ"
      [] k = "parent_key"      -> "PROJ-9"
      [] k = "issue_type"      -> "Task"
      [] k = "labels"          -> <<"backend">>
      [] k = "fields"          -> <<"summary">>
      [] k = "max_results"     -> 10
      [] OTHER                 -> "some text"

\* the argument mappings a caller may send with a tool name
ArgumentsOf(name) ==
    {[k \in ks |-> ArgumentValue(k, tn)] :
        ks \in SUBSET ArgumentKeys(name),
        tn \in IF name = "jira_transition_issue" THEN RequestedNames ELSE {"Done"}}

\* what the tracker may answer to the first request of a call
FirstResponses(name) ==
    Failures \cup
    Ok(IF name \in {"jira_transition_issue", "jira_get_available_transitions"}
       THEN TransitionBodies \cup {[key |-> "PROJ-1"]}
       ELSE DataBodies)

\* what the tracker may answer to a write
WriteResponses == Failures \cup Ok({[key |-> "PROJ-1"]})

\* what the tracker may answer to the second request of a call; only
\* jira_transition_issue issues a second request
SecondResponses(name) ==
    IF name = "jira_transition_issue" THEN WriteResponses ELSE {[status |-> "timeout"]}

MutatingOps ==
    {"create_issue", "update_issue", "transition_issue", "add_comment", "link_issue_to_epic"}

\* a mutating Tracker Client operation invoked by name
Mutate(op, resp) ==
    CASE op = "create_issue" ->
            create_issue([fields |-> [summary |-> "some text"]], resp)
      [] op = "update_issue" ->
            update_issue("PROJ-1", [fields |-> [summary |-> "some text"]], resp)
      [] op = "transition_issue" -> transition_issue("PROJ-1", "11", resp)
      [] op = "add_comment" -> add_comment("PROJ-1", "some text", resp)
      [] OTHER -> link_issue_to_epic("PROJ-1", "PROJ-9", resp)

NoCall ==
    [caller |-> "none", client |-> [config |-> None, session |-> None], name |-> None,
     arguments |-> <<>>, branch |-> 0, ops |-> <<>>, requests |-> <<>>,
     raised |-> NoExc, content |-> <<>>, escaped |-> NoExc]

\* the record of a call: who called, the client's state when it ran, what it did
CallRecord(caller, c) ==
    [caller |-> caller, client |-> [config |-> config, session |-> session],
     name |-> c.name, arguments |-> c.arguments, branch |-> c.branch, ops |-> c.ops,
     requests |-> c.requests, raised |-> c.raised, content |-> c.content,
     escaped |-> c.escaped]

(***************************************************************************)
(* The state machine.                                                      *)
(***************************************************************************)
Init ==
    /\ config = None
    /\ session = None
    /\ pc = "not_started"
    /\ exit = "none"
    /\ loop = "none"
    /\ acquired = 0
    /\ released = 0
    /\ call = NoCall

\* main() up to the try: JIRAConfig(...) and jira_client.initialize(config).
\* initialize stores the config, then encodes the credentials as ASCII
\* (which raises on a non-ASCII credential), then creates the session.
Initialize(ascii) ==
    /\ pc = "not_started"
    /\ call = NoCall
    /\ config' = "set"
    /\ IF ascii
       THEN /\ session' = "open"
            /\ acquired' = acquired + 1
            /\ pc' = "initialized"
            /\ exit' = exit
       ELSE /\ session' = session
            /\ acquired' = acquired
            /\ pc' = "done"
            /\ exit' = "raised"
    /\ UNCHANGED <<loop, released, call>>

\* async with stdio_server() succeeds and server.run starts
StdioServerOpens ==
    /\ pc = "initialized"
    /\ call = NoCall
    /\ pc' = "running"
    /\ UNCHANGED <<config, session, exit, loop, acquired, released, call>>

\* async with stdio_server() raises while setting up the transport
StdioServerFails ==
    /\ pc = "initialized"
    /\ call = NoCall
    /\ pc' = "finally"
    /\ loop' = "raised"
    /\ UNCHANGED <<config, session, exit, acquired, released, call>>

\* server.run dispatches one tool call to handle_call_tool
ServerDispatch(name, arguments, resp1, resp2) ==
    /\ pc = "running"
    /\ call = NoCall
    /\ call' = CallRecord("server.run", handle_call_tool(name, arguments, resp1, resp2))
    /\ UNCHANGED <<config, session, pc, exit, loop, acquired, released>>

\* server.run emits the response and accepts the next message
ServerRespond ==
    /\ pc = "running"
    /\ call.caller = "server.run"
    /\ call' = NoCall
    /\ UNCHANGED <<config, session, pc, exit, loop, acquired, released>>

\* server.run returns: the transport was closed
LoopReturns ==
    /\ pc = "running"
    /\ call.caller \in {"none", "server.run"}
    /\ pc' = "finally"
    /\ loop' = "returned"
    /\ call' = NoCall
    /\ UNCHANGED <<config, session, exit, acquired, released>>

\* server.run raises
LoopRaises ==
    /\ pc = "running"
    /\ call.caller \in {"none", "server.run"}
    /\ pc' = "finally"
    /\ loop' = "raised"
    /\ call' = NoCall
    /\ UNCHANGED <<config, session, exit, acquired, released>>

\* a close() that leaves the session as it is
closeNothing(s) == s

\* JIRAMCPServer.close: the session after close()
close(s) == IF s # None THEN "closed" ELSE s

\* the finally block of main(): jira_client.close(), then main() ends
Finally ==
    /\ pc = "finally"
    /\ call = NoCall
    /\ session' = close(session)
    /\ released' = IF session # None THEN released + 1 ELSE released
    /\ pc' = "done"
    /\ exit' = IF loop = "raised" THEN "raised" ELSE "normal"
    /\ UNCHANGED <<config, loop, acquired, call>>

\* handle_call_tool called by a caller other than the message loop
DirectCall(name, arguments, resp1, resp2) ==
    /\ call = NoCall
    /\ call' = CallRecord("direct", handle_call_tool(name, arguments, resp1, resp2))
    /\ UNCHANGED <<config, session, pc, exit, loop, acquired, released>>

\* a mutating Tracker Client operation called on jira_client itself
ClientInvoke(op, resp) ==
    /\ call = NoCall
    /\ LET r == Mutate(op, resp)
       IN  call' = CallRecord("client",
                      [name |-> op, arguments |-> <<>>, branch |-> 0,
                       ops |-> <<Invoked(op, r)>>, requests |-> r.requests,
                       raised |-> r.exc, content |-> <<>>, escaped |-> r.exc])
    /\ UNCHANGED <<config, session, pc, exit, loop, acquired, released>>

\* the direct caller takes the result
DirectReturn ==
    /\ call.caller \in {"direct", "client"}
    /\ call' = NoCall
    /\ UNCHANGED <<config, session, pc, exit, loop, acquired, released>>

Next ==
    \/ \E ascii \in BOOLEAN : Initialize(ascii)
    \/ StdioServerOpens
    \/ StdioServerFails
    \/ \E name \in ToolNames : \E arguments \in ArgumentsOf(name) :
         \E resp1 \in FirstResponses(name), resp2 \in SecondResponses(name) :
            ServerDispatch(name, arguments, resp1, resp2)
    \/ ServerRespond
    \/ LoopReturns
    \/ LoopRaises
    \/ Finally
    \/ \E name \in ToolNames : \E arguments \in ArgumentsOf(name) :
         \E resp1 \in FirstResponses(name), resp2 \in SecondResponses(name) :
            DirectCall(name, arguments, resp1, resp2)
    \/ \E op \in MutatingOps, resp \in WriteResponses : ClientInvoke(op, resp)
    \/ DirectReturn

Spec == Init /\ [][Next]_vars

(***************************************************************************)
(* Properties.                                                             *)
(***************************************************************************)
\* the call on record was answered by handle_call_tool
Handled == call.caller \in {"server.run", "direct"}

\* the client was not initialized when the call on record ran
Uninitialized == call.client.config = None \/ call.client.session = None

IsWrite(req) == req.method \in {"POST", "PUT"}

Writes(requests) == {i \in 1..Len(requests) : IsWrite(requests[i])}

\* the text of the single result of the call on record
ResultText == call.content[1].text

\* in a jira_transition_issue call: the fetch succeeded and a name was requested
TransitionFetched ==
    /\ Handled
    /\ call.name = "jira_transition_issue"
    /\ call.ops # <<>>
    /\ call.ops[1].exc = NoExc
    /\ "transition_name" \in DOMAIN call.arguments

FetchedTransitions == call.ops[1].value

\* positions of the fetched transitions whose name is the requested one, ignoring case
MatchingPositions ==
    {i \in 1..Len(FetchedTransitions) :
        Lower(FetchedTransitions[i].name) = Lower(call.arguments["transition_name"])}

\* C1: handle_call_tool always returns a non-empty list of text results and
\* lets no exception escape, for every tool name, argument mapping, tracker
\* behaviour and client state; a failure raised during dispatch is returned
\* as a text result that starts with "Error: ".
C1_NoExceptionEscapes ==
    Handled =>
        /\ call.escaped = NoExc
        /\ Len(call.content) >= 1
        /\ \A i \in 1..Len(call.content) :
              call.content[i].type = "text" /\ Len(call.content[i].text) >= 1
        /\ call.raised # NoExc => ResultText[1] = "Error: "

\* a dispatch raised a KeyError after the client was initialized and the
\* caller got the error text
C1_Witness ==
    /\ Handled
    /\ call.client.session = "open"
    /\ call.raised.type = "KeyError"
    /\ ResultText = <<"Error: ", "'", "transition_name", "'">>

\* C2: in jira_transition_issue, when no fetched transition has the requested
\* name (ignoring case), the call returns the failure text that lists the
\* display names of all fetched transitions in fetched order, and issues no write.
C2_NoMatchListsNamesNoWrite ==
    (TransitionFetched /\ MatchingPositions = {}) =>
        /\ call.escaped = NoExc
        /\ Len(call.content) = 1
        /\ ResultText =
              <<"Transition '", call.arguments["transition_name"],
                "' not found. Available transitions: ">>
              \o [i \in 1..Len(FetchedTransitions) |-> FetchedTransitions[i].name]
        /\ Writes(call.requests) = {}

\* "Closed" is requested while the tracker offers In Progress and Done
C2_Witness ==
    /\ TransitionFetched
    /\ call.arguments["transition_name"] = "Closed"
    /\ Len(FetchedTransitions) = 2
    /\ FetchedTransitions[1].name = "In Progress"
    /\ FetchedTransitions[2].name = "Done"
    /\ ResultText = <<"Transition '", "Closed", "' not found. Available transitions: ",
                      "In Progress", "Done">>
    /\ Writes(call.requests) = {}

\* C3: jira_transition_issue fetches the transitions (GET) in the same call
\* before any write, and when a fetched transition has the requested name
\* ignoring case it issues one POST whose transition id is the id of the
\* first such transition in fetched order.
C3_FirstMatchIsPosted ==
    /\ (Handled /\ call.name = "jira_transition_issue" /\ call.requests # <<>>) =>
          /\ call.requests[1].method = "GET"
          /\ call.requests[1].endpoint =
                <<"issue/", call.arguments["issue_key"], "/transitions">>
          /\ \A i \in Writes(call.requests) : i > 1
    /\ (TransitionFetched /\ MatchingPositions # {}) =>
          LET first == CHOOSE i \in MatchingPositions : \A j \in MatchingPositions : i <= j
          IN  /\ Len(call.requests) = 2
              /\ call.requests[2].method = "POST"
              /\ call.requests[2].endpoint =
                    <<"issue/", call.arguments["issue_key"], "/transitions">>
              /\ call.requests[2].kwargs.json.transition.id = FetchedTransitions[first].id

\* two fetched transitions match "done"; the id of the first one is posted
C3_Witness ==
    /\ TransitionFetched
    /\ Cardinality(MatchingPositions) = 2
    /\ FetchedTransitions[1].id # FetchedTransitions[2].id
    /\ Len(call.requests) = 2
    /\ call.requests[2].kwargs.json.transition.id = FetchedTransitions[1].id
    /\ ResultText[1] = "Issue "

\* C4: a name outside the catalog yields the text "Unknown tool: <name>",
\* raises nothing and issues no HTTP request, whatever the arguments and
\* whether or not the client is initialized.
C4_UnknownTool ==
    (Handled /\ call.name \notin CatalogNames) =>
        /\ call.escaped = NoExc
        /\ call.raised = NoExc
        /\ call.content = <<TextContent(<<"Unknown tool: ", call.name>>)>>
        /\ call.requests = <<>>

\* "jira_bogus" is dispatched with arguments while the client is initialized
C4_Witness ==
    /\ Handled
    /\ call.name = "jira_bogus"
    /\ call.client.session = "open"
    /\ call.arguments # <<>>
    /\ ResultText = <<"Unknown tool: ", "jira_bogus">>

\* C5: for every catalog tool, a call whose arguments lack one of the tool's
\* required arguments yields a textual failure and issues no HTTP request.
C5_RequiredCheckedBeforeRequest ==
    (/\ Handled
     /\ call.name \in CatalogNames
     /\ ~(Descriptor(call.name).required \subseteq DOMAIN call.arguments)) =>
        /\ call.escaped = NoExc
        /\ ResultText[1] = "Error: "
        /\ call.requests = <<>>

\* the optional arguments of create and update, and the field each one sets
OptionalOfCreate == {"description", "assignee", "priority", "labels", "parent_key"}

OptionalOfUpdate == {"summary", "description", "assignee", "priority", "labels"}

FieldOf(k) == IF k = "parent_key" THEN "parent" ELSE k

\* C6: the fields document submitted by jira_create_issue has the keys
\* project, issuetype, summary and the key of each optional argument present;
\* the one submitted by jira_update_issue has exactly the keys of the optional
\* arguments present.
C6_FieldsAreThoseSupplied ==
    Handled =>
        \A i \in 1..Len(call.requests) :
            LET req == call.requests[i] IN
            /\ call.name = "jira_create_issue" =>
                  /\ req.method = "POST"
                  /\ DOMAIN req.kwargs.json = {"fields"}
                  /\ DOMAIN req.kwargs.json.fields =
                        {"project", "issuetype", "summary"} \cup
                        {FieldOf(k) : k \in OptionalOfCreate \cap DOMAIN call.arguments}
            /\ call.name = "jira_update_issue" =>
                  /\ req.method = "PUT"
                  /\ DOMAIN req.kwargs.json = {"fields"}
                  /\ DOMAIN req.kwargs.json.fields =
                        OptionalOfUpdate \cap DOMAIN call.arguments

\* an update that supplies only labels submits a document with the one key labels
C6_Witness ==
    /\ Handled
    /\ call.name = "jira_update_issue"
    /\ DOMAIN call.arguments = {"issue_key", "labels"}
    /\ Len(call.requests) = 1
    /\ DOMAIN call.requests[1].kwargs.json.fields = {"labels"}
    /\ call.requests[1].kwargs.json.fields["labels"] = <<"backend">>

\* the client was initialized and its session open when the call on record ran
Ready == call.client.config # None /\ call.client.session = "open"

MutatingTools ==
    {"jira_create_issue", "jira_update_issue", "jira_transition_issue", "jira_add_comment"}

\* the call on record returned a success result (data or confirmation)
Success ==
    /\ Handled
    /\ call.raised = NoExc
    /\ ResultText[1] # "Transition '"

\* C7 as stated: every invocation of a mutating client operation issues
\* exactly one POST/PUT, a mutating tool call that succeeds has issued exactly
\* one write, and no call issues more than one.
C7_ExactlyOneWrite ==
    /\ \A i \in 1..Len(call.ops) :
          call.ops[i].op \in MutatingOps =>
             Cardinality(Writes(call.ops[i].requests)) = 1
    /\ (Success /\ call.name \in MutatingTools) =>
          Cardinality(Writes(call.requests)) = 1
    /\ Cardinality(Writes(call.requests)) <= 1

\* C7 as amended: an invocation of a mutating client operation issues exactly
\* one request, a POST/PUT, when the client is initialized and its session
\* open, and none otherwise; a mutating tool call that succeeds has issued
\* exactly one write; no call issues more than one write.
C7_OneWriteWhenReady ==
    /\ \A i \in 1..Len(call.ops) :
          call.ops[i].op \in MutatingOps =>
             /\ Len(call.ops[i].requests) = (IF Ready THEN 1 ELSE 0)
             /\ Writes(call.ops[i].requests) = 1..Len(call.ops[i].requests)
    /\ (Success /\ call.name \in MutatingTools) =>
          Cardinality(Writes(call.requests)) = 1
    /\ Cardinality(Writes(call.requests)) <= 1

\* link_issue_to_epic on an initialized client issues its one PUT, which fails
C7_Witness ==
    /\ call.caller = "client"
    /\ call.name = "link_issue_to_epic"
    /\ Ready
    /\ call.raised.type = "ClientResponseError"
    /\ Len(call.requests) = 1
    /\ call.requests[1].method = "PUT"
    /\ DOMAIN call.requests[1].kwargs.json.fields = {"parent"}

\* C8: the catalog and the dispatch chain name the same tools, each name once
\* in either, a call runs the branch of its name, and a name outside the
\* catalog runs the final else.
C8_CatalogDispatchParity ==
    /\ CatalogNames = Range(DispatchChain)
    /\ \A n \in CatalogNames \cup Range(DispatchChain) :
          /\ Cardinality({i \in 1..Len(handle_list_tools) : handle_list_tools[i].name = n}) = 1
          /\ Cardinality({i \in 1..Len(DispatchChain) : DispatchChain[i] = n}) = 1
    /\ Handled =>
          /\ call.branch # 0 <=> call.name \in CatalogNames
          /\ call.branch # 0 => DispatchChain[call.branch] = call.name
          /\ call.name \notin CatalogNames => ResultText[1] = "Unknown tool: "

\* the last tool of the catalog is answered by the last branch of the chain
C8_Witness ==
    /\ Handled
    /\ call.name = handle_list_tools[Len(handle_list_tools)].name
    /\ call.branch = Len(DispatchChain)
    /\ call.ops # <<>>
    /\ call.ops[1].op = "get_issue_types"

\* C9: main() acquires the session once and releases it once on every exit
\* path: after initialize created the session, main() ends with the session
\* closed whether the message loop (or the transport set-up) returns or
\* raises, and the loop dispatches no tool call after the session was closed.
C9_SessionReleasedOnEveryExit ==
    /\ acquired <= 1
    /\ released <= acquired
    /\ pc \in {"initialized", "running", "finally"} =>
          acquired = 1 /\ released = 0 /\ session = "open"
    /\ (pc = "done" /\ acquired = 1) => session = "closed" /\ released = 1
    /\ call.caller = "server.run" => call.client.session = "open" /\ released = 0

\* the message loop raised and main() ended with the session closed
C9_Witness ==
    /\ pc = "done"
    /\ loop = "raised"
    /\ exit = "raised"
    /\ acquired = 1
    /\ released = 1
    /\ session = "closed"

\* C10: a client operation invoked while config or session is absent raises
\* "JIRA client not initialized" and issues no request; every catalog tool
\* then returns a text failure.
C10_UninitializedFailsFast ==
    Uninitialized =>
        /\ \A i \in 1..Len(call.ops) :
              /\ call.ops[i].exc = Raise("ValueError", "JIRA client not initialized")
              /\ call.ops[i].requests = <<>>
        /\ call.requests = <<>>
        /\ (Handled /\ call.name \in CatalogNames) =>
              /\ call.escaped = NoExc
              /\ Len(call.content) = 1
              /\ ResultText[1] = "Error: "
              /\ Descriptor(call.name).required \subseteq DOMAIN call.arguments =>
                    ResultText = <<"Error: ", "JIRA client not initialized">>

\* a tool is called after initialize stored the config and failed before
\* creating the session
C10_Witness ==
    /\ Handled
    /\ call.client.config = "set"
    /\ call.client.session = None
    /\ call.name = "jira_add_comment"
    /\ call.ops # <<>>
    /\ ResultText = <<"Error: ", "JIRA client not initialized">>

\* the exceptions by which a request that was sent reports its failure: a
\* non-success status, a network failure, a body that is not JSON, a timeout
TransportErrors ==
    {"ClientResponseError", "ClientConnectionError", "ContentTypeError", "TimeoutError"}

\* positions of the client operations of the call on record whose request failed
FailedOps ==
    {i \in 1..Len(call.ops) :
        call.ops[i].requests # <<>> /\ call.ops[i].exc.type \in TransportErrors}

\* C11: when an HTTP request of a tool call fails, the request is sent once,
\* the call issues no request after it (a failed transitions lookup is
\* followed by no POST), and the call returns the failure as an "Error: "
\* text, never a success or confirmation.
C11_FailureSurfacedNotRetried ==
    Handled =>
        \A i \in FailedOps :
            /\ Len(call.ops[i].requests) = 1
            /\ i = Len(call.ops)
            /\ Len(call.requests) = i
            /\ call.raised = call.ops[i].exc
            /\ call.escaped = NoExc
            /\ Len(call.content) = 1
            /\ ResultText = <<"Error: ">> \o call.ops[i].exc.args
            /\ ~Success
            /\ call.name = "jira_transition_issue" /\ i = 1 => Writes(call.requests) = {}

\* the transitions lookup of jira_transition_issue gets a non-success status:
\* one GET, no POST, and the error text
C11_Witness ==
    /\ Handled
    /\ call.name = "jira_transition_issue"
    /\ "transition_name" \in DOMAIN call.arguments
    /\ FailedOps = {1}
    /\ call.ops[1].exc.type = "ClientResponseError"
    /\ Len(call.requests) = 1
    /\ call.requests[1].method = "GET"
    /\ ResultText = <<"Error: ", "non-success status">>

ReadOnlyTools ==
    {"jira_get_projects", "jira_get_project_details", "jira_search_issues",
     "jira_get_issue", "jira_get_available_transitions", "jira_get_epics",
     "jira_get_issue_types"}

\* the call on record carries every argument its tool's schema requires
RequiredSupplied == Descriptor(call.name).required \subseteq DOMAIN call.arguments

\* C12 as stated: a call to a read-only tool issues exactly one HTTP request,
\* a GET, and never a POST or PUT, whatever the arguments and the responses.
C12_ReadOnlyExactlyOneGet ==
    (Handled /\ call.name \in ReadOnlyTools) =>
        /\ Len(call.requests) = 1
        /\ call.requests[1].method = "GET"
        /\ Writes(call.requests) = {}

\* C12 as amended: a call to a read-only tool issues at most one HTTP
\* request, every request it issues is a GET, and it issues exactly one when
\* the client is initialized with an open session and the call carries the
\* tool's required arguments (none otherwise).
C12_ReadOnlyOnlyGets ==
    (Handled /\ call.name \in ReadOnlyTools) =>
        /\ Len(call.requests) = (IF Ready /\ RequiredSupplied THEN 1 ELSE 0)
        /\ \A i \in 1..Len(call.requests) : call.requests[i].method = "GET"
        /\ Writes(call.requests) = {}

\* jira_get_epics on an initialized client: one GET search, answered with data
C12_Witness ==
    /\ Handled
    /\ call.name = "jira_get_epics"
    /\ Ready
    /\ call.raised = NoExc
    /\ Len(call.requests) = 1
    /\ call.requests[1].method = "GET"
    /\ call.requests[1].endpoint = <<"search">>
    /\ "params" \in DOMAIN call.requests[1].kwargs
    /\ ResultText[1] = "json"

====
